---- MODULE Spec2Model ----
(***************************************************************************)
(* Fetch / cache / rate-limit orchestration of the content script.         *)
(*                                                                         *)
(* One action is one event-loop task of the script: the synchronous part   *)
(* of a handler together with every promise continuation (microtask) it    *)
(* makes runnable.  Suspension points of the code (the chrome.storage      *)
(* callbacks, fetch(), res.json(), the two setTimeout calls) separate the  *)
(* actions.  Times are epoch milliseconds as Date.now() returns them,      *)
(* counted from a shifted epoch so that they fit 32-bit integers.          *)
(***************************************************************************)
EXTENDS Integers, FiniteSets, Sequences, TLC

VARIABLES
    cfg,                  \* what the environment does in this run (fixed by Init)
    now,                  \* Date.now()
    href,                 \* link node -> username of its /user/<name> href
    cacheDays,            \* settings.cacheDays
    store,                \* chrome.storage.local, per-user cache keys
    rateLimitPauseUntil,  \* RUV._rateLimitPauseUntil
    sigGen,               \* identity of the current RUV._rateLimitClearSignal
    inFlight,             \* keys of RUV._inFlight
    job,                  \* per username: the async body registered in _inFlight
    chain,                \* processLink activations and their pending retries
    processed,            \* the WeakSet `processed`
    badge,                \* per link: the .rsd-badge-row it shows
    firstSettled,         \* history: the first fetch for the user has settled
    cohortFetches,        \* history: fetches started by the calls made before that
    failStreak,           \* history: consecutive failed fetches per username
    throttledUntil,       \* history: end of the wait the user's last 429 asked
                          \* for, while it lies ahead (else 0)
    settingsStored,       \* chrome.storage.local, the settings key
    opt,                  \* the options page: its handler in progress
    storedWith,           \* history: limit/after the stored entry was fetched with
    snark                 \* content.js: the getUserData call over the tracked
                          \* subreddits and the entry it stores

vars == << cfg, now, href, cacheDays, store, rateLimitPauseUntil, sigGen,
           inFlight, job, chain, processed, badge, firstSettled, cohortFetches,
           failStreak, throttledUntil, settingsStored, opt, storedWith, snark >>

\* what the content script never writes
optionsVars == << settingsStored, opt >>

----------------------------------------------------------------------------
(* Bounds of the model *)

MaxChains == 2          \* processLink chains started on the two-link page
MaxClicks == 1          \* manual retries (clicks on a loading label)
PauseChains == 3        \* chains started on the two-author page
ClearChains == 4        \* chains started on the two-author page, first second
ClearHorizonMs == 1000  \* how long the clock runs there
HeaderChains == 3       \* chains started on the two-author page, mixed responses
HeaderHorizonMs == 2000 \* how long the clock runs there
RetryChains == 2        \* chains started on the single-link page
ShortHorizonMs == 3000  \* how long the clock runs on the two-link page
PauseHorizonMs == 2000  \* how long the clock runs on the two-author page
RetryHorizonMs == 62000 \* how long the clock runs on the single-link page
MaxAttemptArg == 7      \* largest attempt number the backoff formula is tried on
OptionChains == 2       \* chains started while the options page is open
OptionsHorizonMs == 2000 \* how long the clock runs there
MaxSaves == 2           \* Save or Reset clicks on the options page
QuotaChains == 2        \* chains started on the single-link page, any response
QuotaHorizonMs == 3000  \* how long the clock runs there
GiveUpChains == 3       \* chains started on the two-link page, one given up
GiveUpHorizonMs == 68000 \* how long the clock runs there
MaxSnarkCalls == 2      \* getUserData calls for the author, snark variant

(* Program constants *)

MAX_RETRIES == 5
BackoffBaseMs == 1000
BackoffCapMs == 60000
LowRemaining == 2
TooManyRequests == 429
DefaultCacheDays == 7

DayMs == 24 * 60 * 60 * 1000
\* Date.now() when the content script starts (eight days after the shifted epoch)
StartMs == 8 * DayMs

Links == {"l1", "l2"}
Users == {"alice", "bob"}
Data == {"P1"}
NULL == "null"
ChainIds == DOMAIN chain

\* an instant while it lies ahead of t, else 0
Ahead(v, t) == IF v > t THEN v ELSE 0

Min(a, b) == IF a < b THEN a ELSE b
Max(a, b) == IF a > b THEN a ELSE b

----------------------------------------------------------------------------
(* Values *)

NoEntry == [fetchedAt |-> 0, data |-> NULL]

\* RUV.DEFAULTS, the fields that identify a fetch
DEFAULTS == [limit |-> 10, after |-> "6month"]

NoJob == [pc |-> "none", owner |-> 0, wakeAt |-> 0, sig |-> 0, sleeps |-> 0,
          data |-> NULL, params |-> DEFAULTS]

\* a processLink flow not started; `fetches` (history) counts the fetches the
\* flow started itself, over all its attempts
NoChain == [link |-> "none", attempt |-> 0, pc |-> "free", due |-> 0,
            promise |-> 0, got |-> "none", via |-> "none", cohort |-> FALSE,
            stale |-> FALSE, fetches |-> 0]

\* fetch() rejected
NetworkError == [status |-> 0, remaining |-> 99, reset |-> 0]

\* status, x-ratelimit-remaining and x-ratelimit-reset of a response
Responses == [status : {200, 429, 500}, remaining : {1, 2}, reset : {0, 3}]

\* what res.json() yields: a rejection, a body without a data array, or data
Bodies == {"throws", "notArray"} \cup Data

----------------------------------------------------------------------------
(* storage.js *)

\* variant: an entry is still served when its age equals the duration
getCachedUser_Inclusive(entry, t, maxAgeMs) ==
    IF entry = NoEntry THEN NULL
    ELSE IF (t - entry.fetchedAt) > maxAgeMs THEN NULL
    ELSE entry.data

\* variant: the cache is never consulted
getCachedUser_NeverHit(entry, t, maxAgeMs) == NULL

\* RUV.getCachedUser: the stored data, or null when absent or expired
getCachedUser(entry, t, maxAgeMs) ==
    IF entry = NoEntry THEN NULL
    ELSE IF (t - entry.fetchedAt) >= maxAgeMs THEN NULL
    ELSE entry.data

\* variant: the entry is written without the payload
setCachedUser_Blank(t, data) == [fetchedAt |-> t, data |-> NULL]

\* RUV.setCachedUser: the entry written, stamped with the current time
setCachedUser(t, data) == [fetchedAt |-> t, data |-> data]

\* no settings entry is stored
Absent == [limit |-> 0, after |-> "absent"]

\* RUV.getSettings: the stored settings over the defaults
getSettings == IF settingsStored = Absent THEN DEFAULTS ELSE settingsStored

\* settings.cacheDays * 24 * 60 * 60 * 1000
cacheDurationMs == cacheDays * 24 * 60 * 60 * 1000

----------------------------------------------------------------------------
(* Rate limiter and fetcher *)

\* the while condition of RUV._waitIfRateLimited
IsRateLimited(t, pauseUntil) == t < pauseUntil

\* variant: a woken sleeper goes on without re-checking the pause
waitIfRateLimited_NoRecheck(j, t, pauseUntil, sig) ==
    IF IsRateLimited(t, pauseUntil) /\ j.pc # "sleeping"
    THEN [j EXCEPT !.pc = "sleeping", !.wakeAt = t + (pauseUntil - t), !.sig = sig,
                   !.sleeps = @ + 1]
    ELSE [j EXCEPT !.pc = "requesting"]

\* RUV._waitIfRateLimited entered, or resumed after a wake, at time t by job j:
\* either the loop ends and fetch() is called, or the job sleeps on a timer for
\* the remaining pause, raced with the current clear signal
waitIfRateLimited(j, t, pauseUntil, sig) ==
    IF IsRateLimited(t, pauseUntil)
    THEN [j EXCEPT !.pc = "sleeping", !.wakeAt = t + (pauseUntil - t), !.sig = sig,
                   !.sleeps = @ + 1]
    ELSE [j EXCEPT !.pc = "requesting"]

\* variant: every response sets the pause
PauseAfterResponse_EveryResponse(r, t, pauseUntil) == t + r.reset * 1000

\* variant: only a 429 sets the pause
PauseAfterResponse_Only429(r, t, pauseUntil) ==
    IF r.status = TooManyRequests THEN t + r.reset * 1000 ELSE pauseUntil

\* the two header-driven assignments of fetchUserSubreddits
PauseAfterResponse(r, t, pauseUntil) ==
    LET low == IF r.remaining < LowRemaining THEN t + r.reset * 1000 ELSE pauseUntil
    IN  IF r.status = TooManyRequests THEN t + r.reset * 1000 ELSE low

\* fetchUserSubreddits returns null right after fetch() settled
ResponseFails(r) == r = NetworkError \/ r.status = TooManyRequests \/ r.status # 200

\* the data fetchUserSubreddits returns for a parsed body
ParsedData(b) == IF b \in Data THEN b ELSE NULL

\* variant: whatever the fetch returned is cached
ShouldCache_Always(data) == TRUE

\* getUserData caches what the fetch returned only if it is not null
ShouldCache(data) == data # NULL

\* variant: the registered promise is never found
HasInFlight_Never(u) == FALSE

\* getUserData joins the promise registered for the user, if any
HasInFlight(u) == u \in inFlight

----------------------------------------------------------------------------
(* processLink, after `await getUserData(username)` *)

\* variant: the exponent is the attempt number itself
backoff_FromOne(attempt) == Min((2 ^ attempt) * BackoffBaseMs, BackoffCapMs)

backoff(attempt) == Min((2 ^ (attempt + 1)) * BackoffBaseMs, BackoffCapMs)

\* variant: the pause is not taken into account
retryAfter_BackoffOnly(attempt, t, pauseUntil) == backoff(attempt)

retryAfter(attempt, t, pauseUntil) == Max(pauseUntil - t, backoff(attempt))

IsFailure(userData) == userData = NULL

\* variant: one more retry is allowed
ExhaustedRetries_OneMore(attempt) == attempt > MAX_RETRIES

ExhaustedRetries(attempt) == attempt >= MAX_RETRIES

GivesUp(c, userData) == IsFailure(userData) /\ ExhaustedRetries(chain[c].attempt)

Retries(c, userData) == IsFailure(userData) /\ ~ExhaustedRetries(chain[c].attempt)

\* variant: the retry is scheduled with the counter of the failed attempt
Resumed_AttemptKept(c, userData, via, t, pauseUntil) ==
    IF Retries(c, userData)
    THEN [chain[c] EXCEPT !.pc = "timer",
                          !.due = t + retryAfter(chain[c].attempt, t, pauseUntil),
                          !.promise = 0, !.got = userData, !.via = via]
    ELSE [chain[c] EXCEPT !.pc = IF IsFailure(userData) THEN "givenUp" ELSE "succeeded",
                          !.due = 0, !.promise = 0, !.got = userData, !.via = via]

\* the chain record after processLink resumed with userData obtained `via`
Resumed(c, userData, via, t, pauseUntil) ==
    IF Retries(c, userData)
    THEN [chain[c] EXCEPT !.pc = "timer", !.attempt = @ + 1,
                          !.due = t + retryAfter(chain[c].attempt, t, pauseUntil),
                          !.promise = 0, !.got = userData, !.via = via]
    ELSE [chain[c] EXCEPT !.pc = IF IsFailure(userData) THEN "givenUp" ELSE "succeeded",
                          !.due = 0, !.promise = 0, !.got = userData, !.via = via]

\* `processed` after the chains in S resumed: a retrying chain deletes its link
ProcessedAfter(S, userData) ==
    processed \ {chain[c].link : c \in {d \in S : Retries(d, userData)}}

\* variant: giving up leaves the badge row in place
BadgeAfter_KeptOnGiveUp(S, userData) ==
    [l \in Links |->
        IF (\E c \in S : chain[c].link = l) /\ ~IsFailure(userData)
        THEN "labels"
        ELSE badge[l]]

\* the badges after the chains in S resumed: appendLabels on data, the loading
\* row removed on giving up, the loading row kept on a retry
BadgeAfter(S, userData) ==
    [l \in Links |->
        IF \E c \in S : chain[c].link = l
        THEN IF ~IsFailure(userData) THEN "labels"
             ELSE IF \E c \in S : chain[c].link = l /\ GivesUp(c, userData) THEN "none"
             ELSE badge[l]
        ELSE badge[l]]

----------------------------------------------------------------------------
(* getUserData *)

UserOf(c) == href[chain[c].link]

Awaiting(u) == {c \in ChainIds : chain[c].pc = "awaiting" /\ UserOf(c) = u}

\* variant: the entry stays in the table after the fetch has settled
InFlightAfterSettle_Kept(u) == inFlight

\* RUV._inFlight.delete(username) in the finally block of getUserData
InFlightAfterSettle(u) == inFlight \ {u}

\* The async body of getUserData for user u settles with `value`: the creator's
\* finally block removes the in-flight entry and every awaiting processLink resumes
Settle(u, value, pauseUntil) ==
    /\ inFlight' = InFlightAfterSettle(u)
    /\ job' = [job EXCEPT ![u] = NoJob]
    /\ chain' = [c \in ChainIds |->
                    IF c \in Awaiting(u)
                    THEN Resumed(c, value,
                                 IF chain[c].promise = c THEN "fetch" ELSE "join",
                                 now, pauseUntil)
                    ELSE chain[c]]
    /\ processed' = ProcessedAfter(Awaiting(u), value)
    /\ badge' = BadgeAfter(Awaiting(u), value)
    /\ firstSettled' = [firstSettled EXCEPT ![u] = TRUE]
    /\ failStreak' = [failStreak EXCEPT ![u] = IF IsFailure(value) THEN @ + 1 ELSE 0]

\* fetchUserSubreddits returned `data` to the async body of getUserData: the
\* cache write is issued if there is data, else the body settles; a write that
\* throws is swallowed by storageSet and the body settles at once
Returned(u, data, pauseUntil) ==
    IF ShouldCache(data)
    THEN \E fault \in cfg.faults :
            IF fault
            THEN /\ Settle(u, data, pauseUntil)
                 /\ UNCHANGED << store, storedWith >>
            ELSE /\ store' = [store EXCEPT ![u] = setCachedUser(now, data)]
                 /\ storedWith' = [storedWith EXCEPT ![u] = job[u].params]
                 /\ job' = [job EXCEPT ![u].pc = "writing", ![u].data = data]
                 /\ UNCHANGED << inFlight, chain, processed, badge,
                                 firstSettled, failStreak >>
    ELSE /\ Settle(u, data, pauseUntil)
         /\ UNCHANGED << store, storedWith >>

FreeChains == {c \in ChainIds : chain[c].pc = "free"}

NewChain == CHOOSE c \in FreeChains : \A d \in FreeChains : c <= d

\* variant: a new chain continues the count of the author's failed fetches
StartChain_FromFailures(l, attempt) ==
    [NoChain EXCEPT !.link = l, !.attempt = failStreak[href[l]], !.pc = "reading",
                    !.cohort = /\ ~firstSettled[href[l]]
                               /\ getCachedUser(store[href[l]], now, cacheDurationMs) = NULL]

\* processLink(l, attempt) up to `await getUserData`: the cache read is issued
StartChain(l, attempt) ==
    [NoChain EXCEPT !.link = l, !.attempt = attempt, !.pc = "reading",
                    !.cohort = /\ ~firstSettled[href[l]]
                               /\ getCachedUser(store[href[l]], now, cacheDurationMs) = NULL]

\* showLoadingLabel: a no-op when the link already has a badge row
showLoadingLabel(l) == [badge EXCEPT ![l] = IF @ = "none" THEN "loading" ELSE @]

----------------------------------------------------------------------------
(* Actions *)

\* scan / MutationObserver / scroll / resize: processLink(l) for a visible link
Discover(l) ==
    /\ l \in cfg.links
    /\ IF l \in processed
       THEN UNCHANGED vars
       ELSE /\ FreeChains # {}
            /\ processed' = processed \cup {l}
            /\ badge' = showLoadingLabel(l)
            /\ chain' = [chain EXCEPT ![NewChain] = StartChain(l, 0)]
            /\ UNCHANGED << cfg, now, href, cacheDays, store, storedWith,
                            rateLimitPauseUntil, sigGen, inFlight, job,
                            firstSettled, cohortFetches, failStreak,
                            throttledUntil, settingsStored, opt, snark >>

\* the chrome.storage.local.get callback of chain c's getUserData call; the
\* value delivered is the one stored when the callback runs, or null when
\* the read threw; a fetch is made with the settings in force
CacheRead(c) ==
    /\ chain[c].pc = "reading"
    /\ \E fault \in cfg.faults :
       LET u == UserOf(c)
           cached == IF fault THEN NULL
                     ELSE getCachedUser(store[u], now, cacheDurationMs)
       IN  IF cached # NULL
           THEN /\ chain' = [chain EXCEPT ![c] =
                                Resumed(c, cached, "cache", now, rateLimitPauseUntil)]
                /\ processed' = ProcessedAfter({c}, cached)
                /\ badge' = BadgeAfter({c}, cached)
                /\ UNCHANGED << inFlight, job, cohortFetches >>
           ELSE IF HasInFlight(u)
           THEN /\ chain' = [chain EXCEPT ![c].pc = "awaiting",
                                          ![c].promise = job[u].owner]
                /\ UNCHANGED << processed, badge, inFlight, job,
                                cohortFetches >>
           ELSE /\ chain' = [chain EXCEPT ![c].pc = "awaiting", ![c].promise = c,
                                          ![c].fetches = @ + 1]
                /\ job' = [job EXCEPT ![u] =
                              waitIfRateLimited([NoJob EXCEPT !.owner = c,
                                                               !.params = getSettings],
                                                now, rateLimitPauseUntil, sigGen)]
                /\ inFlight' = inFlight \cup {u}
                /\ cohortFetches' = [cohortFetches EXCEPT ![u] =
                                        IF chain[c].cohort THEN @ + 1 ELSE @]
                /\ UNCHANGED << processed, badge >>
    /\ UNCHANGED << cfg, now, href, cacheDays, store, storedWith,
                    rateLimitPauseUntil, sigGen, firstSettled, failStreak,
                    throttledUntil, settingsStored, opt, snark >>

\* variant: the sleeper waits on the clear signal alone, its timer wakes nobody
WakeTimer_SignalOnly(u) ==
    /\ job[u].pc = "sleeping"
    /\ now >= job[u].wakeAt
    /\ UNCHANGED vars

\* the setTimeout of _waitIfRateLimited fires: the loop condition is re-checked
WakeTimer(u) ==
    /\ job[u].pc = "sleeping"
    /\ now >= job[u].wakeAt
    /\ job' = [job EXCEPT ![u] =
                  waitIfRateLimited(job[u], now, rateLimitPauseUntil, sigGen)]
    /\ UNCHANGED << cfg, now, href, cacheDays, store, storedWith,
                    rateLimitPauseUntil, sigGen, inFlight, chain, processed,
                    badge, firstSettled, cohortFetches, failStreak,
                    throttledUntil, settingsStored, opt, snark >>

\* fetch() settles: a network error, or a response r
Respond(u, r) ==
    /\ job[u].pc = "requesting"
    /\ LET pauseUntil == IF r = NetworkError THEN rateLimitPauseUntil
                         ELSE PauseAfterResponse(r, now, rateLimitPauseUntil)
       IN  /\ rateLimitPauseUntil' = pauseUntil
           /\ IF ResponseFails(r)
              THEN Returned(u, NULL, pauseUntil)
              ELSE /\ job' = [job EXCEPT ![u].pc = "parsing"]
                   /\ UNCHANGED << store, storedWith, inFlight, chain,
                                   processed, badge, firstSettled, failStreak >>
    /\ throttledUntil' = IF r # NetworkError /\ r.status = TooManyRequests
                         THEN [throttledUntil EXCEPT ![u] = Ahead(now + r.reset * 1000, now)]
                         ELSE throttledUntil
    /\ UNCHANGED << cfg, now, href, cacheDays, sigGen, cohortFetches,
                    settingsStored, opt, snark >>

\* res.json() settles with body b and fetchUserSubreddits returns
JsonDone(u, b) ==
    /\ job[u].pc = "parsing"
    /\ Returned(u, ParsedData(b), rateLimitPauseUntil)
    /\ UNCHANGED << cfg, now, href, cacheDays, rateLimitPauseUntil, sigGen,
                    cohortFetches, throttledUntil, settingsStored, opt, snark >>

\* the chrome.storage.local.set callback of setCachedUser
WriteDone(u) ==
    /\ job[u].pc = "writing"
    /\ Settle(u, job[u].data, rateLimitPauseUntil)
    /\ UNCHANGED << cfg, now, href, cacheDays, store, storedWith,
                    rateLimitPauseUntil, sigGen, cohortFetches,
                    throttledUntil, settingsStored, opt, snark >>

\* the setTimeout of processLink fires: processLink(linkNode, attempt + 1)
RetryTimer(c) ==
    /\ chain[c].pc = "timer"
    /\ now >= chain[c].due
    /\ IF chain[c].link \in processed
       THEN /\ chain' = [chain EXCEPT ![c].pc = "skipped", ![c].due = 0]
            /\ UNCHANGED << processed, badge >>
       ELSE /\ processed' = processed \cup {chain[c].link}
            /\ badge' = showLoadingLabel(chain[c].link)
            /\ chain' = [chain EXCEPT ![c] =
                            [StartChain(chain[c].link, chain[c].attempt)
                                EXCEPT !.got = chain[c].got, !.via = chain[c].via,
                                       !.stale = chain[c].stale,
                                       !.fetches = chain[c].fetches]]
    /\ UNCHANGED << cfg, now, href, cacheDays, store, storedWith,
                    rateLimitPauseUntil, sigGen, inFlight, job, firstSettled,
                    cohortFetches, failStreak, throttledUntil, settingsStored,
                    opt, snark >>

\* variant: the signal is resolved but not replaced
clearRateLimit_NoSwap ==
    /\ rateLimitPauseUntil' = 0
    /\ sigGen' = sigGen
    /\ job' = [u \in Users |->
                  IF job[u].pc = "sleeping" /\ job[u].sig = sigGen
                  THEN waitIfRateLimited(job[u], now, 0, sigGen)
                  ELSE job[u]]

\* variant: the pause is reset but the signal is not resolved
clearRateLimit_NoWake ==
    /\ rateLimitPauseUntil' = 0
    /\ sigGen' = sigGen + 1
    /\ job' = job

\* RUV.clearRateLimit, and the sleepers it wakes re-checking the loop condition
clearRateLimit ==
    /\ rateLimitPauseUntil' = 0
    /\ sigGen' = sigGen + 1
    /\ job' = [u \in Users |->
                  IF job[u].pc = "sleeping" /\ job[u].sig = sigGen
                  THEN waitIfRateLimited(job[u], now, 0, sigGen + 1)
                  ELSE job[u]]

\* click on the loading label of link l; `stale` (history) marks the retries
\* of the link that were armed before the click
Click(l) ==
    /\ badge[l] = "loading"
    /\ sigGen < cfg.clicks
    /\ FreeChains # {}
    /\ clearRateLimit
    /\ processed' = processed \cup {l}
    /\ chain' = [c \in ChainIds |->
                    IF c = NewChain THEN StartChain(l, 0)
                    ELSE IF chain[c].link = l /\ chain[c].pc = "timer"
                    THEN [chain[c] EXCEPT !.stale = TRUE]
                    ELSE chain[c]]
    /\ throttledUntil' = [u \in Users |-> 0]
    /\ UNCHANGED << cfg, now, href, cacheDays, store, storedWith, inFlight,
                    badge, firstSettled, cohortFetches, failStreak,
                    settingsStored, opt, snark >>

\* the instants at which a timer of the script is due or the pause ends
Deadlines ==
    {chain[c].due : c \in {d \in ChainIds : chain[d].pc = "timer"}}
    \cup {job[u].wakeAt : u \in {v \in Users : job[v].pc = "sleeping"}}
    \cup {rateLimitPauseUntil}

NextDeadline == CHOOSE d \in Deadlines : d > now /\ \A e \in Deadlines : e > now => d <= e

\* time passes, up to the next such instant
Tick ==
    /\ \E d \in Deadlines : d > now
    /\ NextDeadline <= StartMs + cfg.horizon
    /\ now' = NextDeadline
    /\ throttledUntil' = [u \in Users |-> Ahead(throttledUntil[u], NextDeadline)]
    /\ UNCHANGED << cfg, href, cacheDays, store, storedWith,
                    rateLimitPauseUntil, sigGen, inFlight, job, chain,
                    processed, badge, firstSettled, cohortFetches, failStreak,
                    settingsStored, opt, snark >>

----------------------------------------------------------------------------
(* The options page and the storage it shares with the script *)

\* the state of the link processing of the content script
scriptVars == << cfg, now, href, cacheDays, rateLimitPauseUntil, sigGen, inFlight,
                 job, chain, processed, badge, firstSettled, cohortFetches,
                 failStreak, throttledUntil >>

\* what the options page never writes
pageVars == << scriptVars, snark >>

\* 'ruv_user_' and 'ruv_settings'; a key is the sequence of its pieces
STORAGE_KEY_PREFIX == << "ruv_", "user_" >>

SETTINGS_KEY == << "ruv_", "settings" >>

\* RUV.STORAGE_KEY_PREFIX + username
UserKey(u) == STORAGE_KEY_PREFIX \o << u >>

\* Object.keys(all) for the items chrome.storage.local holds
StoredKeys ==
    {UserKey(u) : u \in {v \in Users : store[v] # NoEntry}}
    \cup (IF settingsStored # Absent THEN {SETTINGS_KEY} ELSE {})

StartsWith_FirstPiece(k, p) == Len(k) >= 1 /\ SubSeq(k, 1, 1) = SubSeq(p, 1, 1)

\* k.startsWith(p)
StartsWith(k, p) == Len(k) >= Len(p) /\ SubSeq(k, 1, Len(p)) = p

\* the keys clearAllUserCache selects for removal
CacheKeys == {k \in StoredKeys : StartsWith(k, STORAGE_KEY_PREFIX)}

\* chrome.storage.local.remove(keys), on the per-user entries
StoreWithout(keys) ==
    [u \in Users |-> IF UserKey(u) \in keys THEN NoEntry ELSE store[u]]

\* chrome.storage.local.remove(keys), on the settings entry
SettingsWithout(keys) ==
    IF SETTINGS_KEY \in keys THEN Absent ELSE settingsStored

\* the values the limit and after controls of the form are set to
FormChoices == [limit : {10, 25}, after : {"6month", "1year"}]

\* the options page once loadSettings().then(applyToForm) has run on a
\* profile without stored settings
IdleOptions ==
    [pc |-> "idle", kind |-> "save", form |-> DEFAULTS, keys |-> {},
     savedLimit |-> DEFAULTS.limit, savedAfter |-> DEFAULTS.after, saves |-> 0,
     prev |-> DEFAULTS, cleared |-> FALSE]

\* applyToForm(s) for the settings loadSettings delivered
LoadedOptions(s) ==
    [IdleOptions EXCEPT !.form = s, !.savedLimit = s.limit,
                        !.savedAfter = s.after, !.prev = s]

\* saveSettings(settings) of the options page: the set is issued
IssueSave(o) ==
    /\ settingsStored' = o.form
    /\ opt' = [o EXCEPT !.pc = "saving"]

\* the Save button is clicked with the form showing these values; `prev`
\* and `cleared` (history) keep the settings stored at the click and whether
\* clearAllUserCache has run since
SaveClick(form) ==
    /\ opt.pc \in {"idle", "raised"}
    /\ opt.saves < cfg.saves
    /\ LET apiChanged == form.limit # opt.savedLimit \/ form.after # opt.savedAfter
           o == [opt EXCEPT !.kind = "save", !.form = form, !.keys = {},
                            !.saves = @ + 1, !.prev = getSettings,
                            !.cleared = FALSE]
       IN  IF apiChanged
           THEN /\ opt' = [o EXCEPT !.pc = "listing"]
                /\ UNCHANGED settingsStored
           ELSE IssueSave(o)
    /\ UNCHANGED << pageVars, store, storedWith >>

\* the Reset button is clicked
ResetClick ==
    /\ opt.pc \in {"idle", "raised"}
    /\ opt.saves < cfg.saves
    /\ opt' = [opt EXCEPT !.pc = "listing", !.kind = "reset", !.form = DEFAULTS,
                          !.keys = {}, !.saves = @ + 1, !.prev = getSettings,
                          !.cleared = FALSE,
                          !.savedLimit = DEFAULTS.limit,
                          !.savedAfter = DEFAULTS.after]
    /\ UNCHANGED << pageVars, store, storedWith, settingsStored >>

\* the callback of clearAllUserCache's chrome.storage.local.get(null): the
\* prefixed keys are removed, or with none the handler goes on to save; a
\* persistence error of the listing or of the removal ends the handler
ListDone ==
    /\ opt.pc = "listing"
    /\ \E fault \in cfg.faults :
          IF fault
          THEN /\ opt' = [opt EXCEPT !.pc = "raised"]
               /\ UNCHANGED << store, storedWith, settingsStored >>
          ELSE LET keys == CacheKeys
               IN  IF keys = {}
                   THEN /\ IssueSave([opt EXCEPT !.cleared = TRUE])
                        /\ UNCHANGED << store, storedWith >>
                   ELSE /\ store' = StoreWithout(keys)
                        /\ storedWith' = [u \in Users |->
                               IF UserKey(u) \in keys THEN DEFAULTS
                               ELSE storedWith[u]]
                        /\ settingsStored' = SettingsWithout(keys)
                        /\ opt' = [opt EXCEPT !.pc = "removing", !.keys = keys,
                                              !.cleared = TRUE]
    /\ UNCHANGED pageVars

\* the callback of chrome.storage.local.remove: the handler goes on to save
RemoveDone ==
    /\ opt.pc = "removing"
    /\ IssueSave(opt)
    /\ UNCHANGED << pageVars, store, storedWith >>

\* the callback of chrome.storage.local.set: the save handler records what
\* it saved
SaveDone ==
    /\ opt.pc = "saving"
    /\ opt' = IF opt.kind = "save"
              THEN [opt EXCEPT !.pc = "idle", !.savedLimit = opt.form.limit,
                               !.savedAfter = opt.form.after]
              ELSE [opt EXCEPT !.pc = "idle"]
    /\ UNCHANGED << pageVars, store, storedWith, settingsStored >>

----------------------------------------------------------------------------
(* content.js: getUserData over the tracked subreddits *)

\* Object.keys(SUBREDDIT_LABELS)
Subreddits == {"LeftoversH3", "h3snark", "Hasan_Piker"}

\* fetchSubredditCount returned null
NoCount == [count |-> -1, hasMore |-> FALSE]

\* what res.json() yields: a rejection, an object without the data listing,
\* a listing without posts, a listing with posts
SnarkBodies == {"throws", "noListing", "empty", "posts"}

\* the return value of fetchSubredditCount for a parsed body:
\* { count: data?.data?.dist ?? 0, hasMore: !!(data?.data?.after) }
SubredditCount(b) ==
    CASE b = "throws" -> NoCount
      [] b = "posts" -> [count |-> 7, hasMore |-> FALSE]
      [] OTHER -> [count |-> 0, hasMore |-> FALSE]

\* no subreddit has a result
NoData == [s \in Subreddits |-> NoCount]

\* storageGet resolved null
NoSnarkEntry == [present |-> FALSE, fetchedAt |-> 0, data |-> NoData]

\* Object.values(data).some(v => v !== null)
SomeCount(data) == \E s \in Subreddits : data[s] # NoCount

\* the test getUserData makes on what storageGet delivered
SnarkCacheHit(entry, t) ==
    /\ entry.present
    /\ t - entry.fetchedAt < DefaultCacheDays * DayMs
    /\ SomeCount(entry.data)

\* no getUserData call has been made and nothing is stored
IdleSnark ==
    [pc |-> "idle", calls |-> 0, via |-> "none",
     fetch |-> [s \in Subreddits |-> [pc |-> "none", body |-> "none"]],
     data |-> NoData, entry |-> NoSnarkEntry]

\* getUserData(username) is called: the cache read is issued
SnarkCall ==
    /\ snark.pc \in {"idle", "returned"}
    /\ snark.calls < cfg.calls
    /\ snark' = [snark EXCEPT !.pc = "reading", !.calls = @ + 1, !.via = "none",
                              !.data = NoData,
                              !.fetch = [s \in Subreddits |->
                                            [pc |-> "none", body |-> "none"]]]
    /\ UNCHANGED << scriptVars, optionsVars, store, storedWith >>

\* the storageGet callback: a usable entry is returned, else the async body
\* starts one fetchSubredditCount per subreddit (no pause is in force)
SnarkRead ==
    /\ snark.pc = "reading"
    /\ now >= rateLimitPauseUntil
    /\ snark' = IF SnarkCacheHit(snark.entry, now)
                THEN [snark EXCEPT !.pc = "returned", !.via = "cache",
                                   !.data = snark.entry.data]
                ELSE [snark EXCEPT !.pc = "fetching",
                                   !.fetch = [s \in Subreddits |->
                                                 [pc |-> "requesting",
                                                  body |-> "none"]]]
    /\ UNCHANGED << scriptVars, optionsVars, store, storedWith >>

\* Promise.all has every result: the data object is built, written to the
\* cache if some value is not null, and returned
Gathered(sn) ==
    IF \E s \in Subreddits : sn.fetch[s].pc # "done"
    THEN sn
    ELSE IF SomeCount(sn.data)
         THEN [sn EXCEPT !.pc = "writing",
                         !.entry = [present |-> TRUE, fetchedAt |-> now,
                                    data |-> sn.data]]
         ELSE [sn EXCEPT !.pc = "returned", !.via = "fetch"]

\* fetch() of the request for subreddit s settles with r
SnarkRespond(s, r) ==
    /\ snark.pc = "fetching"
    /\ snark.fetch[s].pc = "requesting"
    /\ rateLimitPauseUntil' = IF r = NetworkError THEN rateLimitPauseUntil
                              ELSE PauseAfterResponse(r, now, rateLimitPauseUntil)
    /\ snark' = IF ResponseFails(r)
                THEN Gathered([snark EXCEPT !.fetch[s].pc = "done",
                                            !.data[s] = NoCount])
                ELSE [snark EXCEPT !.fetch[s].pc = "parsing"]
    /\ UNCHANGED << cfg, now, href, cacheDays, sigGen, inFlight, job, chain,
                    processed, badge, firstSettled, cohortFetches, failStreak,
                    throttledUntil, optionsVars, store, storedWith >>

\* res.json() of the response for subreddit s settles with body b
SnarkJson(s, b) ==
    /\ snark.pc = "fetching"
    /\ snark.fetch[s].pc = "parsing"
    /\ snark' = Gathered([snark EXCEPT !.fetch[s] = [pc |-> "done", body |-> b],
                                       !.data[s] = SubredditCount(b)])
    /\ UNCHANGED << scriptVars, optionsVars, store, storedWith >>

\* the chrome.storage.local.set callback: getUserData returns the data
SnarkWriteDone ==
    /\ snark.pc = "writing"
    /\ snark' = [snark EXCEPT !.pc = "returned", !.via = "fetch"]
    /\ UNCHANGED << scriptVars, optionsVars, store, storedWith >>

----------------------------------------------------------------------------
(* Specifications *)

\* the script has just been injected
InitScript ==
    /\ now = StartMs
    /\ rateLimitPauseUntil = 0
    /\ sigGen = 0
    /\ inFlight = {}
    /\ job = [u \in Users |-> NoJob]
    /\ chain = [c \in 1 .. cfg.chains |-> NoChain]
    /\ processed = {}
    /\ badge = [l \in Links |-> "none"]
    /\ firstSettled = [u \in Users |-> FALSE]
    /\ cohortFetches = [u \in Users |-> 0]
    /\ failStreak = [u \in Users |-> 0]
    /\ throttledUntil = [u \in Users |-> 0]
    /\ storedWith = [u \in Users |-> DEFAULTS]
    /\ snark = IdleSnark

\* a profile without stored settings, the options page loaded
InitProfile ==
    /\ settingsStored = Absent
    /\ opt = IdleOptions

\* A page with two links of one author, nothing cached, any server behaviour
Init ==
    /\ cfg = [links |-> Links, chains |-> MaxChains, clicks |-> MaxClicks,
              horizon |-> ShortHorizonMs,
              responses |-> Responses \cup {NetworkError}, bodies |-> Bodies,
              faults |-> {FALSE}, saves |-> 0, calls |-> 0]
    /\ href = [l \in Links |-> "alice"]
    /\ cacheDays = DefaultCacheDays
    /\ store = [u \in Users |-> NoEntry]
    /\ InitScript
    /\ InitProfile

Next ==
    \/ \E l \in Links : Discover(l)
    \/ \E c \in ChainIds : CacheRead(c)
    \/ \E u \in Users : WakeTimer(u)
    \/ \E u \in Users : \E r \in cfg.responses : Respond(u, r)
    \/ \E u \in Users : \E b \in cfg.bodies : JsonDone(u, b)
    \/ \E u \in Users : WriteDone(u)
    \/ \E c \in ChainIds : RetryTimer(c)
    \/ \E l \in Links : Click(l)
    \/ Tick

Spec == Init /\ [][Next]_vars

\* A page with one link of each of two authors, clicked at most once; the
\* server answers 429 with a one-second reset, or 200
PauseResponses ==
    {[status |-> 429, remaining |-> 2, reset |-> 1],
     [status |-> 200, remaining |-> 2, reset |-> 0]}

InitPause ==
    /\ cfg = [links |-> Links, chains |-> PauseChains, clicks |-> 1,
              horizon |-> PauseHorizonMs,
              responses |-> PauseResponses, bodies |-> Data,
              faults |-> {FALSE}, saves |-> 0, calls |-> 0]
    /\ href = [l \in Links |-> IF l = "l1" THEN "alice" ELSE "bob"]
    /\ cacheDays = DefaultCacheDays
    /\ store = [u \in Users |-> NoEntry]
    /\ InitScript
    /\ InitProfile

SpecPause == InitPause /\ [][Next]_vars

\* The first second on the same page: no retry timer is due yet
InitClear ==
    /\ cfg = [links |-> Links, chains |-> ClearChains, clicks |-> 1,
              horizon |-> ClearHorizonMs,
              responses |-> PauseResponses, bodies |-> Data,
              faults |-> {FALSE}, saves |-> 0, calls |-> 0]
    /\ href = [l \in Links |-> IF l = "l1" THEN "alice" ELSE "bob"]
    /\ cacheDays = DefaultCacheDays
    /\ store = [u \in Users |-> NoEntry]
    /\ InitScript
    /\ InitProfile

NextClear ==
    \/ \E l \in Links : Discover(l)
    \/ \E c \in ChainIds : CacheRead(c)
    \/ \E u \in Users : WakeTimer(u)
    \/ \E u \in Users : \E r \in cfg.responses : Respond(u, r)
    \/ \E u \in Users : \E b \in cfg.bodies : JsonDone(u, b)
    \/ \E u \in Users : WriteDone(u)
    \/ \E l \in Links : Click(l)
    \/ Tick

SpecClear == InitClear /\ [][NextClear]_vars

\* The same page with a server that mixes statuses, quota and reset headers
HeaderResponses ==
    {NetworkError,
     [status |-> 429, remaining |-> 2, reset |-> 1],
     [status |-> 429, remaining |-> 1, reset |-> 1],
     [status |-> 500, remaining |-> 1, reset |-> 1],
     [status |-> 500, remaining |-> 2, reset |-> 1],
     [status |-> 200, remaining |-> 1, reset |-> 0],
     [status |-> 200, remaining |-> 2, reset |-> 1]}

InitHeaders ==
    /\ cfg = [links |-> Links, chains |-> HeaderChains, clicks |-> 1,
              horizon |-> HeaderHorizonMs,
              responses |-> HeaderResponses, bodies |-> Bodies,
              faults |-> {FALSE}, saves |-> 0, calls |-> 0]
    /\ href = [l \in Links |-> IF l = "l1" THEN "alice" ELSE "bob"]
    /\ cacheDays = DefaultCacheDays
    /\ store = [u \in Users |-> NoEntry]
    /\ InitScript
    /\ InitProfile

SpecHeaders == InitHeaders /\ [][Next]_vars

\* Nobody clicks and the server sends no rate-limit headers, so no pause is
\* ever set and nothing ever sleeps
QuietResponses ==
    {NetworkError,
     [status |-> 500, remaining |-> 99, reset |-> 0],
     [status |-> 200, remaining |-> 99, reset |-> 0]}

\* A page with a single link
InitRetry ==
    /\ cfg = [links |-> {"l1"}, chains |-> RetryChains, clicks |-> 0,
              horizon |-> RetryHorizonMs,
              responses |-> QuietResponses, bodies |-> Bodies,
              faults |-> {FALSE}, saves |-> 0, calls |-> 0]
    /\ href = [l \in Links |-> "alice"]
    /\ cacheDays = DefaultCacheDays
    /\ store = [u \in Users |-> NoEntry]
    /\ InitScript
    /\ InitProfile

NextQuiet ==
    \/ \E l \in Links : Discover(l)
    \/ \E c \in ChainIds : CacheRead(c)
    \/ \E u \in Users : \E r \in cfg.responses : Respond(u, r)
    \/ \E u \in Users : \E b \in cfg.bodies : JsonDone(u, b)
    \/ \E u \in Users : WriteDone(u)
    \/ \E c \in ChainIds : RetryTimer(c)
    \/ Tick

SpecRetry == InitRetry /\ [][NextQuiet]_vars

\* A page opened with cache entries left by an earlier visit, written
\* AgeSlackMs before, exactly at, or just after the instant they expire
AgeSlackMs == {-1, 0, 1, 2000}

CacheDaysChoices == {1, DefaultCacheDays}

InitCache ==
    /\ cfg = [links |-> Links, chains |-> MaxChains, clicks |-> 0,
              horizon |-> ShortHorizonMs,
              responses |-> QuietResponses, bodies |-> Data,
              faults |-> {FALSE}, saves |-> 0, calls |-> 0]
    /\ href = [l \in Links |-> IF l = "l1" THEN "alice" ELSE "bob"]
    /\ cacheDays \in CacheDaysChoices
    /\ store \in [Users -> {setCachedUser(StartMs - cacheDays * DayMs + k, "P0") :
                             k \in AgeSlackMs}]
    /\ InitScript
    /\ InitProfile

SpecCache == InitCache /\ [][NextQuiet]_vars

\* A page with a single link, any server behaviour and one manual retry
InitQuota ==
    /\ cfg = [links |-> {"l1"}, chains |-> QuotaChains, clicks |-> 1,
              horizon |-> QuotaHorizonMs,
              responses |-> Responses \cup {NetworkError}, bodies |-> Bodies,
              faults |-> {FALSE}, saves |-> 0, calls |-> 0]
    /\ href = [l \in Links |-> "alice"]
    /\ cacheDays = DefaultCacheDays
    /\ store = [u \in Users |-> NoEntry]
    /\ InitScript
    /\ InitProfile

SpecQuota == InitQuota /\ [][Next]_vars

\* the chain of l1 has failed at attempts 0 .. MAX_RETRIES and given up
GaveUpChain ==
    [NoChain EXCEPT !.pc = "givenUp", !.link = "l1", !.attempt = MAX_RETRIES,
                    !.got = NULL, !.via = "fetch", !.fetches = MAX_RETRIES + 1]

\* A page with two links of one author, at the moment the chain of the first
\* link has given up, 62 s after its discovery, and before the second link
\* has been looked at
InitGiveUp ==
    /\ cfg = [links |-> Links, chains |-> GiveUpChains, clicks |-> 0,
              horizon |-> GiveUpHorizonMs,
              responses |-> QuietResponses, bodies |-> Bodies,
              faults |-> {FALSE}, saves |-> 0, calls |-> 0]
    /\ href = [l \in Links |-> "alice"]
    /\ cacheDays = DefaultCacheDays
    /\ store = [u \in Users |-> NoEntry]
    /\ now = StartMs + RetryHorizonMs
    /\ rateLimitPauseUntil = 0
    /\ sigGen = 0
    /\ inFlight = {}
    /\ job = [u \in Users |-> NoJob]
    /\ chain = [c \in 1 .. cfg.chains |-> IF c = 1 THEN GaveUpChain ELSE NoChain]
    /\ processed = {"l1"}
    /\ badge = [l \in Links |-> "none"]
    /\ firstSettled = [u \in Users |-> u = "alice"]
    /\ cohortFetches = [u \in Users |-> IF u = "alice" THEN 1 ELSE 0]
    /\ failStreak = [u \in Users |-> IF u = "alice" THEN MAX_RETRIES + 1 ELSE 0]
    /\ throttledUntil = [u \in Users |-> 0]
    /\ storedWith = [u \in Users |-> DEFAULTS]
    /\ settingsStored = Absent
    /\ opt = IdleOptions
    /\ snark = IdleSnark

SpecGiveUp == InitGiveUp /\ [][NextQuiet]_vars

\* One author is resolved over the tracked subreddits, up to MaxSnarkCalls
\* times; the server sends no rate-limit headers
SnarkResponses ==
    {NetworkError,
     [status |-> 429, remaining |-> 99, reset |-> 0],
     [status |-> 500, remaining |-> 99, reset |-> 0],
     [status |-> 200, remaining |-> 99, reset |-> 0]}

InitSnark ==
    /\ cfg = [links |-> {}, chains |-> 0, clicks |-> 0, horizon |-> 0,
              responses |-> SnarkResponses, bodies |-> SnarkBodies,
              faults |-> {FALSE}, saves |-> 0, calls |-> MaxSnarkCalls]
    /\ href = [l \in Links |-> "alice"]
    /\ cacheDays = DefaultCacheDays
    /\ store = [u \in Users |-> NoEntry]
    /\ InitScript
    /\ InitProfile

NextSnark ==
    \/ SnarkCall
    \/ SnarkRead
    \/ \E s \in Subreddits : \E r \in cfg.responses : SnarkRespond(s, r)
    \/ \E s \in Subreddits : \E b \in cfg.bodies : SnarkJson(s, b)
    \/ SnarkWriteDone

SpecSnark == InitSnark /\ [][NextSnark]_vars

\* A page with a single link while the options page is open, on a profile
\* without stored settings or with a limit saved earlier, and with storage
\* operations that may fail
InitOptions ==
    /\ cfg = [links |-> {"l1"}, chains |-> OptionChains, clicks |-> 0,
              horizon |-> OptionsHorizonMs,
              responses |-> QuietResponses, bodies |-> Data,
              faults |-> {FALSE, TRUE}, saves |-> MaxSaves, calls |-> 0]
    /\ href = [l \in Links |-> "alice"]
    /\ cacheDays = DefaultCacheDays
    /\ store = [u \in Users |-> NoEntry]
    /\ InitScript
    /\ settingsStored \in {Absent, [limit |-> 25, after |-> "6month"]}
    /\ opt = LoadedOptions(getSettings)

NextOptions ==
    \/ NextQuiet
    \/ \E form \in FormChoices : SaveClick(form)
    \/ ResetClick
    \/ ListDone
    \/ RemoveDone
    \/ SaveDone

SpecOptions == InitOptions /\ [][NextOptions]_vars

----------------------------------------------------------------------------
(* Properties *)

\* the cache duration, from the setting
TtlMs == cacheDays * DayMs

\* the user has a stored entry that is still valid at the current time
ValidEntry(u) == store[u] # NoEntry /\ now - store[u].fetchedAt < TtlMs

\* chain c's cache read completes in this step
ReadCompletes(c) == chain[c].pc = "reading" /\ chain'[c].pc # "reading"

\* C1: concurrent calls for one username that start while no valid cache entry
\* exists and before the first call's fetch has settled cause exactly one
\* Fetcher invocation: never more than one fetch is started by such calls.
C1_OneFetchPerCohort == \A u \in Users : cohortFetches[u] <= 1

\* C2: a call that finds a resolution in flight for the username shares it: it
\* starts no fetch of its own and awaits the promise of the creator, and when
\* it resumes, the creator resumes in the same step with the same outcome.
C2_JoinersShareOutcome ==
    [][\A c \in ChainIds :
          /\ (ReadCompletes(c) /\ ~ValidEntry(UserOf(c)) /\ UserOf(c) \in inFlight)
                => /\ job' = job
                   /\ inFlight' = inFlight
                   /\ chain'[c].pc = "awaiting"
                   /\ chain'[c].promise = job[UserOf(c)].owner
          /\ (chain[c].pc = "awaiting" /\ chain[c].promise # c
                                       /\ chain'[c].pc # "awaiting")
                => /\ chain[chain[c].promise].pc = "awaiting"
                   /\ chain[chain[c].promise].promise = chain[c].promise
                   /\ chain'[chain[c].promise].pc # "awaiting"
                   /\ chain'[c].got = chain'[chain[c].promise].got
                   /\ chain'[c].via = "join"]_vars

\* a joiner and the creator it joined have both resumed with the same data
C2_Witness ==
    \E c, p \in ChainIds :
        /\ c # p
        /\ chain[c].via = "join" /\ chain[p].via = "fetch"
        /\ chain[c].pc = "succeeded" /\ chain[p].pc = "succeeded"
        /\ chain[c].got = chain[p].got /\ chain[c].got \in Data

\* C3: a stored entry is returned iff its age is below the cache duration: at
\* age = duration - 1 the read is a hit, at age = duration (or more) it is a
\* miss and the call goes on to the in-flight check and the fetch.
C3_TtlBoundary ==
    [][\A c \in ChainIds :
          (ReadCompletes(c) /\ store[UserOf(c)] # NoEntry)
             => IF now - store[UserOf(c)].fetchedAt < TtlMs
                THEN /\ chain'[c].pc = "succeeded"
                     /\ chain'[c].via = "cache"
                     /\ chain'[c].got = store[UserOf(c)].data
                ELSE /\ chain'[c].pc = "awaiting"
                     /\ UserOf(c) \in inFlight']_vars

\* one read hit an entry one millisecond short of expiry while another read
\* missed an entry whose age equals the duration
C3_Witness ==
    \E c, d \in ChainIds :
        /\ now = StartMs
        /\ chain[c].pc = "succeeded" /\ chain[c].via = "cache"
        /\ now - store[UserOf(c)].fetchedAt = TtlMs - 1
        /\ chain[d].pc = "awaiting" /\ chain[d].promise = d
        /\ store[UserOf(d)] # NoEntry
        /\ now - store[UserOf(d)].fetchedAt = TtlMs

\* C4: a fetch that fails writes nothing: the cache changes only in the step in
\* which a fetch produced data, it then holds exactly that data, that fetch
\* settles with that data, and a fetch that settles as failed leaves the cache
\* as it was; no entry ever holds the failure value.
C4_NoCacheOnFailure ==
    [][/\ \A u \in Users : store[u] # NoEntry => store[u].data # NULL
       /\ \A u \in Users :
            /\ store'[u] # store[u]
                 => /\ job[u].pc = "parsing" /\ job'[u].pc = "writing"
                    /\ job'[u].data # NULL
                    /\ store'[u] = [fetchedAt |-> now, data |-> job'[u].data]
            /\ (job[u].pc = "writing" /\ job'[u].pc = "none")
                 => failStreak'[u] = 0
            /\ failStreak'[u] > failStreak[u]
                 => /\ store' = store
                    /\ job[u].pc \in {"requesting", "parsing"}]_vars

\* two fetches in a row have failed and nothing was cached
C4_Witness ==
    \E u \in Users :
        /\ failStreak[u] >= 2
        /\ store[u] = NoEntry
        /\ job[u].pc = "none"

\* C5: a call that finds a valid cache entry returns the cached data at once,
\* whether or not a pause is active: no fetch is started, no in-flight entry is
\* added, nothing sleeps and the pause is not touched.
C5_CacheHitBypasses ==
    [][\A c \in ChainIds :
          (ReadCompletes(c) /\ ValidEntry(UserOf(c)))
             => /\ chain'[c].pc = "succeeded"
                /\ chain'[c].via = "cache"
                /\ chain'[c].got = store[UserOf(c)].data
                /\ job' = job
                /\ inFlight' = inFlight
                /\ cohortFetches' = cohortFetches
                /\ rateLimitPauseUntil' = rateLimitPauseUntil
                /\ now' = now]_vars

\* a call was answered from the cache while the pause was active
C5_Witness ==
    \E c \in ChainIds :
        /\ chain[c].pc = "succeeded" /\ chain[c].via = "cache"
        /\ now < rateLimitPauseUntil
        /\ store[UserOf(c)].fetchedAt = now

\* C6: a request is issued only when now >= pauseUntil: a fetch that starts
\* during a pause sleeps first, a sleeper wakes only at its timer or on the
\* clear signal, and a woken sleeper sleeps again, until the new end of the
\* pause, if the pause was extended meanwhile.
C6_RequestOnlyWhenUnpaused ==
    [][\A u \in Users :
          /\ (job'[u].pc = "requesting" /\ job[u].pc # "requesting")
                => /\ now' >= rateLimitPauseUntil'
                   /\ job[u].pc \in {"none", "sleeping"}
          /\ (job[u].pc = "none" /\ job'[u].pc # "none")
                => job'[u].pc = IF now < rateLimitPauseUntil THEN "sleeping"
                                ELSE "requesting"
          /\ (job[u].pc = "sleeping" /\ job'[u] # job[u])
                => /\ now >= job[u].wakeAt \/ sigGen' # sigGen
                   /\ IF now < rateLimitPauseUntil'
                      THEN /\ job'[u].pc = "sleeping"
                           /\ job'[u].wakeAt = rateLimitPauseUntil'
                           /\ job'[u].sleeps = job[u].sleeps + 1
                      ELSE job'[u].pc = "requesting"]_vars

\* without any click, a fetch slept, woke at its timer into an extended pause,
\* slept again, and then issued its request
C6_Witness ==
    \E u \in Users :
        /\ sigGen = 0
        /\ job[u].pc = "requesting"
        /\ job[u].sleeps >= 2
        /\ now >= rateLimitPauseUntil

\* C7: when clearRateLimit is called, every fetch sleeping on the pause is
\* released in that step and the pause is no longer in effect.
C7_ClearWakesAll ==
    [][sigGen' # sigGen
          => /\ rateLimitPauseUntil' <= now'
             /\ \A u \in Users : job[u].pc = "sleeping" => job'[u].pc = "requesting"]_vars

\* two fetches were released by the clear, ahead of their timers
C7_Witness ==
    /\ sigGen = 1
    /\ \A u \in Users : job[u].pc = "requesting" /\ job[u].sleeps >= 1
                                                 /\ now < job[u].wakeAt

\* only the first chain of the page has been started
OnlyFirstChain == \A c \in ChainIds : c # 1 => chain[c].pc = "free"

C9_NoTimerAfterTerminal ==
    sigGen = 0 =>
        \A c, d \in ChainIds :
            (chain[c].pc \in {"succeeded", "givenUp"} /\ chain[d].pc = "timer")
                => chain[c].link # chain[d].link

\* the delays the specification lists
ExpectedDelay(a) ==
    CASE a = 0 -> 2000
      [] a = 1 -> 4000
      [] a = 2 -> 8000
      [] a = 3 -> 16000
      [] a = 4 -> 32000
      [] OTHER -> 60000

\* C10: with no active pause the retry delay after a failure at attempt a is
\* 2000, 4000, 8000, 16000, 32000 ms for a = 0 .. 4 and 60000 ms from a = 5 on,
\* both as computed and as armed on the retry timer.
C10_BackoffValues ==
    [][/\ now >= rateLimitPauseUntil
          => \A a \in 0 .. MaxAttemptArg :
                retryAfter(a, now, rateLimitPauseUntil) = ExpectedDelay(a)
       /\ \A c \in ChainIds :
            (chain[c].pc = "awaiting" /\ chain'[c].pc = "timer"
                                      /\ now >= rateLimitPauseUntil')
                => chain'[c].due - now = ExpectedDelay(chain[c].attempt)]_vars

\* the retry after the failure at attempt 4 is armed 32 seconds ahead
C10_Witness ==
    \E c \in ChainIds :
        /\ chain[c].pc = "timer"
        /\ chain[c].attempt = MAX_RETRIES
        /\ chain[c].due = now + 32000
        /\ now >= rateLimitPauseUntil

\* chain c resumes with a failure and arms its retry timer in this step
ArmsRetry(c) == chain[c].pc \in {"reading", "awaiting"} /\ chain'[c].pc = "timer"

\* C11: the retry armed after a failure is max(backoff, pauseUntil - now)
\* ahead: never before the pause deadline known when it is armed, never
\* before the backoff of the attempt has elapsed, and exactly at the later
\* of the two.
C11_PauseFloor ==
    [][\A c \in ChainIds :
          ArmsRetry(c)
             => /\ chain'[c].due >= rateLimitPauseUntil'
                /\ chain'[c].due >= now + ExpectedDelay(chain[c].attempt)
                /\ \/ chain'[c].due = rateLimitPauseUntil'
                   \/ chain'[c].due = now + ExpectedDelay(chain[c].attempt)]_vars

\* a retry after the failure at attempt 0 is armed at the end of a pause
\* that lies beyond the two-second backoff
C11_Witness ==
    \E c \in ChainIds :
        /\ chain[c].pc = "timer"
        /\ chain[c].attempt = 1
        /\ chain[c].due = rateLimitPauseUntil
        /\ chain[c].due > now + 2000

\* C12 (general part): after a 429 with reset R for a user, and no clear since,
\* no request for that user is issued before the R seconds have elapsed.
C12_NoRequestBeforeReset ==
    \A u \in Users : job[u].pc = "requesting" => throttledUntil[u] = 0

\* C13: pauseUntil changes only forward, by a response, or to zero, by clear.
C13_PauseNeverMovesBackward ==
    [][\/ rateLimitPauseUntil' >= rateLimitPauseUntil
       \/ sigGen' # sigGen /\ rateLimitPauseUntil' = 0]_vars

\* C14: a retry of a link that was armed before a click on that link never
\* runs a fetch afterwards: after the click the link is resolved only by the
\* chain the click started at attempt 0.
C14_NoStaleRetryRuns ==
    \A c \in ChainIds :
        chain[c].stale
            => ~ /\ chain[c].pc = "awaiting"
                 /\ chain[c].promise = c
                 /\ job[UserOf(c)].owner = c
                 /\ job[UserOf(c)].pc = "requesting"

\* C15: a discovery of a link that is loading or waiting for its retry is a
\* no-op: unless the link is clicked, no new processLink chain is started for
\* a link that has a chain reading, awaiting or waiting on its retry timer.
C15_RediscoveryIsNoOp ==
    [][\A c, d \in ChainIds :
          (/\ chain[c].pc \in {"reading", "awaiting", "timer"}
           /\ chain[d].pc = "free"
           /\ sigGen' = sigGen)
             => chain'[d].link # chain[c].link]_vars

\* C16: clearAllUserCache removes every stored entry whose key starts with
\* the per-user prefix and leaves every other stored key, the settings entry
\* in particular, unchanged: the keys it removes are exactly the keys of the
\* stored per-user entries, none of these is stored afterwards, and the
\* settings entry is what it was.
C16_ClearRemovesOnlyUserEntries ==
    [][(opt.pc = "listing" /\ opt'.pc \in {"removing", "saving"})
          => /\ \A u \in Users : store'[u] = NoEntry
             /\ opt'.pc = "saving" => \A u \in Users : store[u] = NoEntry
             /\ opt'.pc = "removing"
                   => /\ opt'.keys = {UserKey(u) :
                                        u \in {v \in Users : store[v] # NoEntry}}
                      /\ settingsStored' = settingsStored]_vars

C16_Witness ==
    /\ opt.pc = "removing"
    /\ opt.keys = {UserKey("alice")}
    /\ settingsStored \in FormChoices
    /\ \A u \in Users : store[u] = NoEntry


\* C17: once a settings save has completed, the cache holds no payload that
\* was fetched with a limit or after other than the saved ones, whatever
\* resolutions were in flight during the save.
C17_NoOldPayloadAfterSave ==
    (opt.pc = "idle" /\ opt.saves > 0)
        => \A u \in Users : store[u] # NoEntry => storedWith[u] = settingsStored


\* C18: no cache-store operation (get, put, clearAll) ever raises to its
\* caller: no handler of the options page is ended by a persistence error
\* of clearAllUserCache.
C18_StoreNeverRaises == opt.pc # "raised"


\* C19: on every response received, whatever its status, pauseUntil becomes
\* now + reset*1000 if the response reports remaining < 2 or has status 429,
\* and is left unchanged otherwise.
C19_PauseSetByHeadersOr429 ==
    [][\A u \in Users : \A r \in cfg.responses \ {NetworkError} :
          Respond(u, r)
             => rateLimitPauseUntil' =
                   IF r.remaining < 2 \/ r.status = 429
                   THEN now + r.reset * 1000
                   ELSE rateLimitPauseUntil]_vars

C19_Witness ==
    /\ \E u \in Users : job[u].pc = "parsing"
    /\ \A u \in Users : throttledUntil[u] = 0
    /\ now = StartMs
    /\ rateLimitPauseUntil = now + 3000


\* a fetch fails on response r without being throttled: fetch() rejected, or
\* the status is neither a success nor 429
FailsUnthrottled(u, r) ==
    /\ Respond(u, r)
    /\ ResponseFails(r)
    /\ (r = NetworkError \/ r.status # 429)

\* C20 as stated: among the failures of a fetch only a 429 changes
\* pauseUntil; a transport failure and a protocol failure leave it unchanged.
C20_OnlyThrottledFailureMovesPause ==
    [][\A u \in Users : \A r \in cfg.responses :
          FailsUnthrottled(u, r) => rateLimitPauseUntil' = rateLimitPauseUntil]_vars

\* C20: a transport failure leaves pauseUntil unchanged; a protocol failure
\* leaves it unchanged unless its response reports remaining < 2, in which
\* case pauseUntil becomes now + reset*1000 as for any response; finding the
\* payload malformed changes nothing.
C20_FailuresMovePauseOnlyByHeaders ==
    [][/\ \A u \in Users : \A r \in cfg.responses :
            FailsUnthrottled(u, r)
               => rateLimitPauseUntil' =
                     IF r # NetworkError /\ r.remaining < 2
                     THEN now + r.reset * 1000
                     ELSE rateLimitPauseUntil
       /\ \A u \in Users : \A b \in cfg.bodies :
            JsonDone(u, b) => rateLimitPauseUntil' = rateLimitPauseUntil]_vars

C20_Witness ==
    /\ now = StartMs
    /\ rateLimitPauseUntil = StartMs + 3000
    /\ \A u \in Users : throttledUntil[u] = 0
    /\ \E c \in ChainIds :
          /\ chain[c].pc = "timer"
          /\ chain[c].got = NULL
          /\ chain[c].due = rateLimitPauseUntil


\* the bodies that are unparseable or lack the expected payload fields
InvalidBodies == {"throws", "noListing"}

\* C21: a successful-status response whose body is unparseable or
\* structurally invalid makes the fetch return failure: the request it
\* answered never yields a data result.
C21_InvalidBodyIsFailure ==
    \A s \in Subreddits :
        (snark.fetch[s].pc = "done" /\ snark.fetch[s].body \in InvalidBodies)
            => snark.data[s] = NoCount

\* C22: a null returned by fetchSubredditCount is not persisted: no cache
\* entry contains a null value for a subreddit.
C22_NoNullInCache ==
    snark.entry.present
        => \A s \in Subreddits : snark.entry.data[s] # NoCount


\* the usernames with an unsettled getUserData body
Outstanding == {u \in Users : job[u].pc # "none"}

\* C23: the in-flight table holds a username exactly while a fetch for it is
\* outstanding: a call that misses the cache and finds no entry has inserted
\* one owned by itself, with its fetch started, by the end of the same task;
\* a call that finds an entry joins it; the entry is gone in the task in
\* which the fetch settles, with data or with a failure, so a later call
\* (a retry after a failure) starts a fetch of its own.
C23_InFlightWhileOutstanding ==
    [][/\ inFlight = Outstanding
       /\ inFlight' = {u \in Users : job'[u].pc # "none"}
       /\ \A c \in ChainIds :
            (ReadCompletes(c) /\ chain'[c].pc = "awaiting")
               => /\ UserOf(c) \in inFlight'
                  /\ UserOf(c) \in inFlight
                        => /\ chain'[c].promise = job[UserOf(c)].owner
                           /\ job' = job
                  /\ UserOf(c) \notin inFlight
                        => /\ chain'[c].promise = c
                           /\ job'[UserOf(c)].owner = c
                           /\ job'[UserOf(c)].pc \in {"sleeping", "requesting"}
       /\ \A u \in Users :
            (u \in Outstanding /\ job'[u].pc = "none")
               => /\ u \notin inFlight'
                  /\ \A c \in Awaiting(u) : chain'[c].pc # "awaiting"]_vars

C23_Witness ==
    \E c \in ChainIds :
        /\ chain[c].pc = "awaiting"
        /\ chain[c].attempt = 1
        /\ chain[c].promise = c
        /\ job[UserOf(c)].owner = c
        /\ job[UserOf(c)].pc = "requesting"
        /\ failStreak[UserOf(c)] = 1
        /\ inFlight = {UserOf(c)}


\* processLink chain c resumes in this step with data
Delivered(c) ==
    /\ chain[c].pc = "awaiting"
    /\ chain'[c].pc # "awaiting"
    /\ chain'[c].got # NULL

\* the entry of user u holds the payload after this step
HoldsPayload(u, data) == store'[u] # NoEntry /\ store'[u].data = data

\* the entry written for u was removed while its write was being confirmed
ClearedMeanwhile(u) == job[u].pc = "writing" /\ store[u] = NoEntry

\* C24 as stated: when a caller receives freshly fetched data, the in-flight
\* entry was still present and the cache holds that payload, unless a
\* clearAll ran meanwhile.
C24_FreshDataIsCached ==
    [][\A c \in ChainIds :
          Delivered(c)
             => /\ UserOf(c) \in inFlight
                /\ HoldsPayload(UserOf(c), chain'[c].got)
                      \/ ClearedMeanwhile(UserOf(c))]_vars

\* C24: when a caller receives freshly fetched data, the in-flight entry was
\* still present and the write of that payload was issued and confirmed
\* before, so the cache holds the payload unless a clearAll ran meanwhile; or
\* the write threw, the error was swallowed, and the cache is as it was.
C24_WriteThroughUnlessWriteFails ==
    [][\A c \in ChainIds :
          Delivered(c)
             => /\ UserOf(c) \in inFlight
                /\ \/ /\ job[UserOf(c)].pc = "writing"
                      /\ HoldsPayload(UserOf(c), chain'[c].got)
                            \/ ClearedMeanwhile(UserOf(c))
                   \/ /\ job[UserOf(c)].pc = "parsing"
                      /\ TRUE \in cfg.faults
                      /\ store' = store]_vars

C24_Witness ==
    /\ \E c \in ChainIds :
          /\ chain[c].pc = "succeeded"
          /\ chain[c].via = "fetch"
          /\ store[UserOf(c)] # NoEntry
          /\ store[UserOf(c)].data = chain[c].got
    /\ inFlight = {}
    /\ opt.pc = "idle"
    /\ opt.saves = 0


\* C25: the wake signal is swapped on every clear: a clear installs a new
\* instance, every waiter races on the instance that is current and unfired
\* when it starts to wait, and a waiter is released only by its own timer or
\* by a clear made after it started to wait.
C25_SignalSwappedOnClear ==
    [][/\ (\E l \in Links : Click(l)) => sigGen' = sigGen + 1
       /\ \A u \in Users :
            /\ job'[u].pc = "sleeping" => job'[u].sig = sigGen'
            /\ (job[u].pc = "sleeping" /\ job'[u] # job[u])
                  => \/ now >= job[u].wakeAt
                     \/ sigGen' > job[u].sig]_vars

\* after a clear, a fetch started to wait on a pause set later, and was
\* released by its own timer
C25_Witness ==
    \E u \in Users :
        /\ sigGen = 1
        /\ job[u].pc = "requesting"
        /\ job[u].sig = 1
        /\ job[u].sleeps = 1
        /\ now >= job[u].wakeAt
        /\ job[u].wakeAt > StartMs


\* a chain of the author of link l has given up
GaveUpOn(l) ==
    \E c \in ChainIds : chain[c].pc = "givenUp" /\ UserOf(c) = href[l]

\* C26: giving up does not record the subject as failed: after a chain of an
\* author has given up, the discovery of another link of that author starts
\* a chain at attempt 0, and unless data was cached meanwhile that chain
\* goes on to a fetch of its own or joins the one outstanding.
C26_GiveUpIsNotRemembered ==
    [][\A c \in ChainIds :
          /\ (/\ chain[c].pc = "free"
              /\ chain'[c].pc # "free"
              /\ GaveUpOn(chain'[c].link))
                => /\ chain'[c].pc = "reading"
                   /\ chain'[c].attempt = 0
          /\ (/\ ReadCompletes(c)
              /\ chain[c].attempt = 0
              /\ GaveUpOn(chain[c].link)
              /\ store[UserOf(c)] = NoEntry)
                => /\ chain'[c].pc = "awaiting"
                   /\ UserOf(c) \in inFlight'
                   /\ UserOf(c) \notin inFlight
                         => job'[UserOf(c)].pc = "requesting"]_vars

\* after the chain of l1 gave up on six failed fetches, the chain of l2
\* failed a seventh time and waits for its first retry
C26_Witness ==
    \E c, d \in ChainIds :
        /\ chain[c].pc = "givenUp"
        /\ chain[c].link = "l1"
        /\ chain[d].pc = "timer"
        /\ chain[d].link = "l2"
        /\ chain[d].attempt = 1
        /\ failStreak["alice"] = MAX_RETRIES + 2


\* the save or reset handler has run to its end in this step
HandlerEnds == opt.pc = "saving" /\ opt'.pc = "idle"

\* the form of the handler differs in limit or after from the settings that
\* were stored when the button was clicked
ApiChanged == opt.form.limit # opt.prev.limit \/ opt.form.after # opt.prev.after

\* C27: a save that runs to its end has cleared the user cache if and only
\* if its limit or after differs from the values last saved, and a reset
\* that runs to its end has always cleared it
C27_ClearsIffLimitOrAfterChanged ==
    [][HandlerEnds =>
          /\ opt.kind = "save" => (opt.cleared <=> ApiChanged)
          /\ opt.kind = "reset" => opt.cleared]_vars


\* an attempt or a retry timer of link l is pending
Pending(l) ==
    \E c \in ChainIds : chain[c].link = l /\ chain[c].pc \in {"reading", "awaiting", "timer"}

\* chain c gives up in this step
GivesUpNow(c) == chain[c].pc = "awaiting" /\ chain'[c].pc = "givenUp"

\* C28: when a link gives up its loading indicator is removed, and whenever
\* no attempt and no retry timer is pending for a link, the link having
\* succeeded or given up, it shows no loading indicator.
C28_NoLoadingIndicatorLingers ==
    [][/\ \A c \in ChainIds : GivesUpNow(c) => badge'[chain[c].link] = "none"
       /\ \A l \in Links : ~Pending(l)' => badge'[l] # "loading"]_vars

\* the link has given up at the failure of its last attempt, nothing is
\* pending for it and its badge row is gone
C28_Witness ==
    \E c \in ChainIds :
        /\ chain[c].pc = "givenUp"
        /\ chain[c].attempt = MAX_RETRIES
        /\ ~Pending(chain[c].link)
        /\ badge[chain[c].link] = "none"


----------------------------------------------------------------------------
(* Release of the callers blocked in waitIfRateLimited *)

WaitChains == 3
WaitHorizonMs == 2000

\* the chain of l1 has failed at attempt 0 on a 429 with a one-second reset
\* and waits for its first retry
ThrottledChain ==
    [NoChain EXCEPT !.pc = "timer", !.link = "l1", !.attempt = 1,
                    !.due = StartMs + retryAfter(0, StartMs, StartMs + 1000),
                    !.got = NULL, !.via = "fetch", !.cohort = TRUE, !.fetches = 1]

\* A page with one link of each of two authors, clicked at most once, at the
\* moment the first fetch for the first link has been answered 429 with a
\* one-second reset and before the second link has been looked at
InitWait ==
    /\ cfg = [links |-> Links, chains |-> WaitChains, clicks |-> 1,
              horizon |-> WaitHorizonMs,
              responses |-> PauseResponses, bodies |-> Data,
              faults |-> {FALSE}, saves |-> 0, calls |-> 0]
    /\ href = [l \in Links |-> IF l = "l1" THEN "alice" ELSE "bob"]
    /\ cacheDays = DefaultCacheDays
    /\ store = [u \in Users |-> NoEntry]
    /\ now = StartMs
    /\ rateLimitPauseUntil = StartMs + 1000
    /\ sigGen = 0
    /\ inFlight = {}
    /\ job = [u \in Users |-> NoJob]
    /\ chain = [c \in 1 .. cfg.chains |-> IF c = 1 THEN ThrottledChain ELSE NoChain]
    /\ processed = {}
    /\ badge = [l \in Links |-> IF l = "l1" THEN "loading" ELSE "none"]
    /\ firstSettled = [u \in Users |-> u = "alice"]
    /\ cohortFetches = [u \in Users |-> IF u = "alice" THEN 1 ELSE 0]
    /\ failStreak = [u \in Users |-> IF u = "alice" THEN 1 ELSE 0]
    /\ throttledUntil = [u \in Users |-> IF u = "alice" THEN StartMs + 1000 ELSE 0]
    /\ storedWith = [u \in Users |-> DEFAULTS]
    /\ snark = IdleSnark
    /\ InitProfile

\* the event loop runs a timer callback that is due, and time passes
TimersFire == WF_vars(Tick) /\ \A u \in Users : WF_vars(WakeTimer(u))

SpecWait == InitWait /\ [][Next]_vars

SpecWaitFair == SpecWait /\ TimersFire

\* the job of u is blocked in waitIfRateLimited
Blocked(u) == job[u].pc = "sleeping"

\* the timer the job of u sleeps on is due after the horizon
BeyondHorizon(u) == Blocked(u) /\ job[u].wakeAt > StartMs + cfg.horizon

\* the job of u has left waitIfRateLimited and called fetch()
Released(u) == job[u].pc = "requesting" /\ job[u].sleeps > 0

\* C29: every caller blocked in waitIfRateLimited is eventually released
\* and issues its request, when timers that are due fire and time passes
\* (the pause being extended finitely often); within the horizon, a caller
\* is released or sleeps on a deadline beyond the horizon.
C29_WaitersAreReleased ==
    \A u \in Users : Blocked(u) ~> (Released(u) \/ BeyondHorizon(u))

\* a caller was released by its timer at the second re-check, the pause
\* having been extended while it slept, and nobody clicked
C29_Witness ==
    \E u \in Users :
        /\ Released(u)
        /\ job[u].sleeps = 2
        /\ sigGen = 0
        /\ now >= rateLimitPauseUntil
        /\ now = StartMs + 2000


\* the attempts and retry timers pending for link l
Activities(l) ==
    {c \in ChainIds : chain[c].link = l /\ chain[c].pc \in {"reading", "awaiting", "timer"}}

\* C30: for any single link at most one resolution activity exists at any
\* time: one attempt in progress or one pending retry timer, never two.
C30_OneActivityPerLink ==
    \A l \in Links : Cardinality(Activities(l)) <= 1


\* the retry timer of chain c fires and processLink runs again in this step
RunsRetry(c) == chain[c].pc = "timer" /\ chain'[c].pc = "reading"

\* C31: the attempt counter of every processLink flow stays within
\* 0 .. MAX_RETRIES, a retry is scheduled and run with the counter of the
\* failed attempt plus one, and a chain started at attempt 0 starts at most
\* MAX_RETRIES + 1 fetches of its own.
C31_AttemptWithinBounds ==
    [][\A c \in ChainIds :
          /\ chain'[c].attempt \in 0 .. MAX_RETRIES
          /\ ArmsRetry(c) => chain'[c].attempt = chain[c].attempt + 1
          /\ RunsRetry(c) => chain'[c].attempt = chain[c].attempt
          /\ chain'[c].fetches <= MAX_RETRIES + 1
          /\ chain'[c].fetches <= chain'[c].attempt + 1]_vars

\* a chain has run attempts 0 .. MAX_RETRIES, each with a fetch of its own,
\* and has given up
C31_Witness ==
    \E c \in ChainIds :
        /\ chain[c].pc = "givenUp"
        /\ chain[c].attempt = MAX_RETRIES
        /\ chain[c].fetches = MAX_RETRIES + 1
        /\ chain[c].got = NULL


\* a processLink flow of link l has ended with labels or by giving up
Terminal(l) ==
    \E c \in ChainIds : chain[c].link = l /\ chain[c].pc \in {"succeeded", "givenUp"}

\* a discovery of link l passes the processed check and starts a flow in this step
DiscoveryStarts(l) ==
    /\ sigGen' = sigGen
    /\ \E c \in ChainIds : chain[c].pc = "free" /\ chain'[c].link = l

\* C32: once a flow of a link has succeeded or given up the link stays in the
\* processed set, and no later discovery of the link starts a flow: none
\* shows a loading indicator or starts a fetch.
C32_TerminalLinkStaysProcessed ==
    [][\A l \in Links :
          Terminal(l) => /\ l \in processed
                         /\ ~DiscoveryStarts(l)]_vars

====
